---- MODULE Spec2Model ----
(***************************************************************************)
(* FocusFlow detection backend (src/backend/main.py).                      *)
(*                                                                         *)
(* Three specifications over one set of variables:                         *)
(*   SpecSmooth    the DetectionSmoothing object driven through its two    *)
(*                 methods, add_detection and get_smoothed_result;         *)
(*   SpecClassify  the three proximity classifiers and the face_detected   *)
(*                 flag, applied to inputs drawn in Init;                  *)
(*   Spec          the server: POST /detect requests on the event loop,    *)
(*                 sharing the module-level smoother and detector.         *)
(*                                                                         *)
(* Units.  Pixel coordinates are integers.  A visibility v in [0,1] is     *)
(* held as the integer 100*v, so the gates 0.3 and 0.2 are 30 and 20.      *)
(***************************************************************************)
EXTENDS Integers, Sequences, FiniteSets

VARIABLES
    phone_detections,     \* smoother.phone_detections: the deque, oldest first
    last_detection_time,  \* smoother.last_detection_time
    now,                  \* the time source read by add_detection
    pushed,               \* history: every tuple handed to add_detection, in order
    smoothed,             \* what get_smoothed_result returned, call by call, since the last push
    object_detector,      \* detector.object_detector: "loaded" or None
    pose_landmarker,      \* detector.pose_landmarker: "loaded" or None
    pc,                   \* per request: "idle" or "reading" (suspended at await file.read())
    last,                 \* the request that completed last: its frame, outcome and response
    phone_box,            \* classifier input: a bounding box
    keypoints,            \* classifier input: the keypoint list
    verdict               \* classifier outputs for (phone_box, keypoints)

vars == <<phone_detections, last_detection_time, now, pushed, smoothed,
          object_detector, pose_landmarker, pc, last, phone_box, keypoints, verdict>>

None == "None"

(***************************************************************************)
(* Bounds of the model.                                                    *)
(***************************************************************************)
\* add_detection calls in one behaviour
MaxPushes == 6
\* get_smoothed_result calls between two add_detection calls
MaxReads == 2
\* frames the server pushes into the window in one behaviour
MaxFrames == 4

(***************************************************************************)
(* DetectionSmoothing                                                      *)
(***************************************************************************)
\* smoother = DetectionSmoothing(window_size=5)
window_size == 5

Channels == {"phone", "left_ear", "right_ear", "front_face"}

\* Variant: a full deque drops its newest item (the wrong end)
deque_append_drop_newest(dq, d) ==
    IF Len(dq) = window_size THEN Append(SubSeq(dq, 1, Len(dq) - 1), d) ELSE Append(dq, d)

\* deque(maxlen=window_size).append: a full deque drops its oldest (leftmost) item
deque_append(dq, d) ==
    IF Len(dq) = window_size THEN Append(Tail(dq), d) ELSE Append(dq, d)

\* DetectionSmoothing.add_detection: the deque after the call; t is time.time() * 1000
add_detection(dq, phone_detected, near_left, near_right, in_front, t) ==
    deque_append(dq, [phone      |-> phone_detected,
                      left_ear   |-> near_left,
                      right_ear  |-> near_right,
                      front_face |-> in_front,
                      timestamp  |-> t])

\* sum(1 for d in self.phone_detections if d[ch])
votes(dq, ch) == Cardinality({i \in DOMAIN dq : dq[i][ch]})

AllFalse ==
    [phone_detected          |-> FALSE,
     phone_near_left_ear     |-> FALSE,
     phone_near_right_ear    |-> FALSE,
     phone_in_front_of_face  |-> FALSE]

\* votes > threshold with threshold = self.window_size / 2, a true division (2.5):
\* v > window_size / 2 exactly when 2 * v > window_size
\* Variant: the threshold taken from the current fill, len(deque) / 2
above_threshold_of_fill(dq, v) == 2 * v > Len(dq)

above_threshold(dq, v) == 2 * v > window_size

\* DetectionSmoothing.get_smoothed_result: the dict returned
get_smoothed_result(dq) ==
    IF dq = <<>> THEN AllFalse
    ELSE [phone_detected          |-> above_threshold(dq, votes(dq, "phone")),
          phone_near_left_ear     |-> above_threshold(dq, votes(dq, "left_ear")),
          phone_near_right_ear    |-> above_threshold(dq, votes(dq, "right_ear")),
          phone_in_front_of_face  |-> above_threshold(dq, votes(dq, "front_face"))]

(***************************************************************************)
(* Geometry primitives                                                     *)
(***************************************************************************)
\* get_phone_center: (x_min + width / 2, y_min + height / 2).  The boxes of this
\* model have even width and height, so the true division is exact.
get_phone_center(box) ==
    <<box.x_min + box.width \div 2, box.y_min + box.height \div 2>>

\* The largest r in lo..hi with r * r <= s
RECURSIVE SqrtBetween(_, _, _)
SqrtBetween(s, lo, hi) ==
    IF lo = hi THEN lo
    ELSE LET mid == (lo + hi + 1) \div 2
         IN  IF mid * mid <= s THEN SqrtBetween(s, mid, hi)
                               ELSE SqrtBetween(s, lo, mid - 1)

\* distance: np.sqrt(dx**2 + dy**2), held as its integer part.  The code only
\* compares a distance with an integer threshold t by <, and for integer s
\* sqrt(s) < t exactly when floor(sqrt(s)) < t.
distance(p1, p2) ==
    LET dx == IF p1[1] >= p2[1] THEN p1[1] - p2[1] ELSE p2[1] - p1[1]
        dy == IF p1[2] >= p2[2] THEN p1[2] - p2[2] ELSE p2[2] - p1[2]
    IN  SqrtBetween(dx * dx + dy * dy, 0, dx + dy)

(***************************************************************************)
(* Proximity classifiers.  A call returns a boolean or raises IndexError   *)
(* (a list index past the end).                                            *)
(***************************************************************************)
Return(v) == [raised |-> FALSE, value |-> v]
IndexError == [raised |-> TRUE, value |-> FALSE]

\* keypoints[i], Python's 0-based indexing
Item(kps, i) == kps[i + 1]
InRange(kps, idx) == \A i \in idx : i < Len(kps)

\* if not keypoints or len(keypoints) < 16 (left ear), < 17 (right ear, face)
\* Variant: a left-ear guard one short of the highest index read
LEFT_MIN_KEYPOINTS_short == 16 - 1
LEFT_MIN_KEYPOINTS == 16
RIGHT_MIN_KEYPOINTS == 17
FACE_MIN_KEYPOINTS == 17

\* Thresholds, in pixels
\* Variant: a distance of 140 still counts as near the ear
EAR_THRESHOLD_inclusive == 140 + 1
EAR_THRESHOLD == 140
CLOSE_THRESHOLD == 100
FACE_MARGIN == 120
\* Variant: a distance of 200 still counts as near the nose
NOSE_THRESHOLD_inclusive == 200 + 1
NOSE_THRESHOLD == 200

\* Visibility gates, in hundredths: 0.3 (ear, nose, wrist) and 0.2 (face points)
VISIBILITY_GATE == 30
FACE_POINT_GATE == 20

is_phone_near_left_ear(box, kps) ==
    IF kps = <<>> \/ Len(kps) < LEFT_MIN_KEYPOINTS THEN Return(FALSE)
    ELSE IF ~InRange(kps, {7, 15, 11}) THEN IndexError
    ELSE
    LET left_ear == Item(kps, 7)
        left_wrist == Item(kps, 15)
        left_shoulder == Item(kps, 11)
    IN  IF left_ear.visibility < VISIBILITY_GATE THEN Return(FALSE)
        ELSE
        LET phone_center == get_phone_center(box)
            ear_pos == <<left_ear.x, left_ear.y>>
            dist_to_ear == distance(phone_center, ear_pos)
        IN  IF dist_to_ear < CLOSE_THRESHOLD THEN Return(TRUE)
            ELSE
            LET wrist_raised == /\ left_wrist.visibility > VISIBILITY_GATE
                                /\ left_wrist.y < left_shoulder.y
            IN  Return(dist_to_ear < EAR_THRESHOLD /\ wrist_raised)

is_phone_near_right_ear(box, kps) ==
    IF kps = <<>> \/ Len(kps) < RIGHT_MIN_KEYPOINTS THEN Return(FALSE)
    ELSE IF ~InRange(kps, {8, 16, 12}) THEN IndexError
    ELSE
    LET right_ear == Item(kps, 8)
        right_wrist == Item(kps, 16)
        right_shoulder == Item(kps, 12)
    IN  IF right_ear.visibility < VISIBILITY_GATE THEN Return(FALSE)
        ELSE
        LET phone_center == get_phone_center(box)
            ear_pos == <<right_ear.x, right_ear.y>>
            dist_to_ear == distance(phone_center, ear_pos)
        IN  IF dist_to_ear < CLOSE_THRESHOLD THEN Return(TRUE)
            ELSE
            LET wrist_raised == /\ right_wrist.visibility > VISIBILITY_GATE
                                /\ right_wrist.y < right_shoulder.y
            IN  Return(dist_to_ear < EAR_THRESHOLD /\ wrist_raised)

SetMin(S) == CHOOSE m \in S : \A x \in S : m <= x
SetMax(S) == CHOOSE m \in S : \A x \in S : m >= x
IsVisibleFacePoint(p) == p.visibility > FACE_POINT_GATE

is_phone_in_front_of_face(box, kps) ==
    IF kps = <<>> \/ Len(kps) < FACE_MIN_KEYPOINTS THEN Return(FALSE)
    ELSE IF ~InRange(kps, {0, 2, 5, 7, 8, 15, 16}) THEN IndexError
    ELSE
    LET nose == Item(kps, 0)
        left_eye == Item(kps, 2)
        right_eye == Item(kps, 5)
        left_ear == Item(kps, 7)
        right_ear == Item(kps, 8)
        left_wrist == Item(kps, 15)
        right_wrist == Item(kps, 16)
    IN  IF nose.visibility < VISIBILITY_GATE THEN Return(FALSE)
        ELSE
        LET face_points == <<nose, left_eye, right_eye, left_ear, right_ear>>
            visible_face_points == SelectSeq(face_points, IsVisibleFacePoint)
        IN  IF visible_face_points = <<>> THEN Return(FALSE)
            ELSE
            LET face_x_coords == {visible_face_points[i].x : i \in DOMAIN visible_face_points}
                face_y_coords == {visible_face_points[i].y : i \in DOMAIN visible_face_points}
                face_bbox == [x_min |-> SetMin(face_x_coords) - FACE_MARGIN,
                              x_max |-> SetMax(face_x_coords) + FACE_MARGIN,
                              y_min |-> SetMin(face_y_coords) - FACE_MARGIN,
                              y_max |-> SetMax(face_y_coords) + FACE_MARGIN]
                phone_center == get_phone_center(box)
                phone_in_face_area ==
                    /\ face_bbox.x_min <= phone_center[1]
                    /\ phone_center[1] <= face_bbox.x_max
                    /\ face_bbox.y_min <= phone_center[2]
                    /\ phone_center[2] <= face_bbox.y_max
                nose_pos == <<nose.x, nose.y>>
                dist_to_nose == distance(phone_center, nose_pos)
                wrist_visible == \/ left_wrist.visibility > VISIBILITY_GATE
                                 \/ right_wrist.visibility > VISIBILITY_GATE
            IN  Return(phone_in_face_area /\ dist_to_nose < NOSE_THRESHOLD /\ wrist_visible)

\* detect: face_detected = False; if keypoints: face_detected = nose visibility > 0.2
face_detected(kps) ==
    IF kps = <<>> THEN FALSE ELSE Item(kps, 0).visibility > FACE_POINT_GATE

(***************************************************************************)
(* SpecSmooth: a fresh DetectionSmoothing(window_size=5) and its callers.  *)
(***************************************************************************)
Tuple(p, l, r, f) == [phone |-> p, left_ear |-> l, right_ear |-> r, front_face |-> f]

\* The argument tuples the callers of SpecSmooth pass: every channel both ways,
\* no two channels alike.
Detections ==
    { Tuple(FALSE, FALSE, FALSE, FALSE),
      Tuple(TRUE,  FALSE, FALSE, FALSE),
      Tuple(TRUE,  TRUE,  FALSE, FALSE),
      Tuple(FALSE, FALSE, TRUE,  FALSE),
      Tuple(TRUE,  FALSE, FALSE, TRUE) }

\* No request has completed yet
NoRequest == [status |-> 0, raised_at |-> "none", frame |-> 0, raw |-> <<>>, response |-> <<>>]
\* No classifier called yet: each entry is <<>>, or <<r>> once the call returned r
NoVerdict == [left |-> <<>>, right |-> <<>>, front |-> <<>>, face |-> <<>>]
NoBox == [x_min |-> 0, y_min |-> 0, width |-> 0, height |-> 0]

\* The variables a specification does not use stay at these values.
ServerIdle ==
    /\ object_detector = None
    /\ pose_landmarker = None
    /\ pc = <<>>
    /\ last = NoRequest

ClassifierIdle ==
    /\ phone_box = NoBox
    /\ keypoints = <<>>
    /\ verdict = NoVerdict

\* DetectionSmoothing.__init__
SmoothInit ==
    /\ phone_detections = <<>>
    /\ last_detection_time = 0
    /\ now = 0
    /\ pushed = <<>>
    /\ smoothed = <<>>
    /\ ServerIdle
    /\ ClassifierIdle

\* A call of DetectionSmoothing.add_detection; time has passed since the last one
Call_add_detection ==
    /\ now < MaxPushes
    /\ \E d \in Detections :
          /\ phone_detections' = add_detection(phone_detections, d.phone, d.left_ear,
                                               d.right_ear, d.front_face, now + 1)
          /\ pushed' = Append(pushed, d)
    /\ now' = now + 1
    /\ smoothed' = <<>>
    /\ UNCHANGED <<last_detection_time, object_detector, pose_landmarker, pc, last,
                   phone_box, keypoints, verdict>>

\* Variant: a read that pops the oldest tuple
Call_get_smoothed_result_consuming ==
    /\ Len(smoothed) < MaxReads
    /\ smoothed' = Append(smoothed, get_smoothed_result(phone_detections))
    /\ phone_detections' = IF phone_detections = <<>> THEN <<>> ELSE Tail(phone_detections)
    /\ UNCHANGED <<last_detection_time, now, pushed, object_detector, pose_landmarker,
                   pc, last, phone_box, keypoints, verdict>>

\* A call of DetectionSmoothing.get_smoothed_result: it assigns to nothing
Call_get_smoothed_result ==
    /\ Len(smoothed) < MaxReads
    /\ smoothed' = Append(smoothed, get_smoothed_result(phone_detections))
    /\ UNCHANGED <<phone_detections, last_detection_time, now, pushed, object_detector,
                   pose_landmarker, pc, last, phone_box, keypoints, verdict>>

SmoothNext == Call_add_detection \/ Call_get_smoothed_result

SpecSmooth == SmoothInit /\ [][SmoothNext]_vars

(***************************************************************************)
(* SpecClassify: the classifiers applied to inputs drawn in Init.          *)
(***************************************************************************)
\* detect_pose: MediaPipe Pose yields 33 landmarks
NUM_LANDMARKS == 33

\* A keypoint as the classifiers read it; z and name only travel to the response
Keypoint(x, y, v) == [x |-> x, y |-> y, visibility |-> v]

\* A pose of NUM_LANDMARKS keypoints: a head facing the camera, both shoulders at
\* y = 350.  The visibilities and the wrists' heights are the parameters; a
\* landmark the classifiers never read is placed below the shoulders.
Pose(nose_v, eye_v, lear_v, rear_v, lwrist, rwrist) ==
    [i \in 1..NUM_LANDMARKS |->
        CASE i - 1 = 0  -> Keypoint(300, 200, nose_v)
          [] i - 1 = 2  -> Keypoint(320, 180, eye_v)
          [] i - 1 = 5  -> Keypoint(280, 180, eye_v)
          [] i - 1 = 7  -> Keypoint(350, 190, lear_v)
          [] i - 1 = 8  -> Keypoint(250, 190, rear_v)
          [] i - 1 = 11 -> Keypoint(400, 350, 90)
          [] i - 1 = 12 -> Keypoint(200, 350, 90)
          [] i - 1 = 15 -> Keypoint(380, lwrist[2], lwrist[1])
          [] i - 1 = 16 -> Keypoint(220, rwrist[2], rwrist[1])
          [] OTHER      -> Keypoint(300, 400 + i, 50)]

\* <<visibility, y>> of a wrist: visible and raised; at the gate (not above it)
\* and raised; visible and level with the shoulder (not above it)
Wrists == { <<31, 300>>, <<30, 300>>, <<31, 350>> }
NoseVisibilities == {10, 20, 29, 30}
EyeVisibilities == {20, 21}
EarVisibilities == {29, 30}

\* A 40 x 60 box centred at (cx, cy)
BoxAt(cx, cy) == [x_min |-> cx - 20, y_min |-> cy - 30, width |-> 40, height |-> 60]

\* Box centres at, just inside and on the thresholds: around the left ear
\* (350,190) at distance 0, 99.4, 100, 139.4 and 140, the same around the right
\* ear (250,190), on and off the face region's upper and right edges, at 199.2
\* and 200 from the nose (300,200), and far from everything.
PhoneCentres ==
    { <<350, 190>>, <<409, 270>>, <<410, 270>>, <<433, 302>>, <<434, 302>>,
      <<250, 190>>, <<191, 270>>, <<190, 270>>, <<167, 302>>, <<166, 302>>,
      <<300, 60>>,  <<300, 59>>,  <<470, 200>>, <<471, 200>>,
      <<459, 320>>, <<460, 320>>, <<600, 600>> }

\* The lengths at which every pose of the model is tried; the other lengths in
\* 0..NUM_LANDMARKS are tried with the fully visible, wrists-raised pose.
BoundaryLengths == {LEFT_MIN_KEYPOINTS, RIGHT_MIN_KEYPOINTS, NUM_LANDMARKS}

ClassifyInit ==
    /\ \E n \in 0..NUM_LANDMARKS, nose_v \in NoseVisibilities, eye_v \in EyeVisibilities,
          lear_v \in EarVisibilities, rear_v \in EarVisibilities,
          lwrist \in Wrists, rwrist \in Wrists :
          /\ \/ n \in BoundaryLengths
             \/ /\ nose_v = 30 /\ eye_v = 21 /\ lear_v = 30 /\ rear_v = 30
                /\ lwrist = <<31, 300>> /\ rwrist = <<31, 300>>
          /\ keypoints = SubSeq(Pose(nose_v, eye_v, lear_v, rear_v, lwrist, rwrist), 1, n)
    /\ \E c \in PhoneCentres : phone_box = BoxAt(c[1], c[2])
    /\ verdict = NoVerdict
    /\ phone_detections = <<>>
    /\ last_detection_time = 0
    /\ now = 0
    /\ pushed = <<>>
    /\ smoothed = <<>>
    /\ ServerIdle

\* The three classifiers and the face_detected flag, called on the inputs
Call_is_phone_near_left_ear ==
    /\ verdict.left = <<>>
    /\ verdict' = [verdict EXCEPT !.left = <<is_phone_near_left_ear(phone_box, keypoints)>>]
    /\ UNCHANGED <<phone_detections, last_detection_time, now, pushed, smoothed,
                   object_detector, pose_landmarker, pc, last, phone_box, keypoints>>

Call_is_phone_near_right_ear ==
    /\ verdict.right = <<>>
    /\ verdict' = [verdict EXCEPT !.right = <<is_phone_near_right_ear(phone_box, keypoints)>>]
    /\ UNCHANGED <<phone_detections, last_detection_time, now, pushed, smoothed,
                   object_detector, pose_landmarker, pc, last, phone_box, keypoints>>

Call_is_phone_in_front_of_face ==
    /\ verdict.front = <<>>
    /\ verdict' = [verdict EXCEPT !.front = <<is_phone_in_front_of_face(phone_box, keypoints)>>]
    /\ UNCHANGED <<phone_detections, last_detection_time, now, pushed, smoothed,
                   object_detector, pose_landmarker, pc, last, phone_box, keypoints>>

Call_face_detected ==
    /\ verdict.face = <<>>
    /\ verdict' = [verdict EXCEPT !.face = <<face_detected(keypoints)>>]
    /\ UNCHANGED <<phone_detections, last_detection_time, now, pushed, smoothed,
                   object_detector, pose_landmarker, pc, last, phone_box, keypoints>>

ClassifyNext ==
    \/ Call_is_phone_near_left_ear
    \/ Call_is_phone_near_right_ear
    \/ Call_is_phone_in_front_of_face
    \/ Call_face_detected

SpecClassify == ClassifyInit /\ [][ClassifyNext]_vars

(***************************************************************************)
(* Spec: the server.  POST /detect runs on one event loop; a request is    *)
(* suspended only at `await file.read()`, and everything after it runs     *)
(* without yielding.                                                       *)
(***************************************************************************)
Requests == {"r1", "r2"}

\* The pose the pose landmarker reports: everything visible, both wrists level
\* with the shoulders (not raised).
PoseWristsLevel == Pose(90, 90, 90, 90, <<90, 350>>, <<90, 350>>)

\* The uploads of the model.  decodes: cv2.imdecode returns an image; objects:
\* the phone boxes a loaded object detector reports for it, in its order;
\* pose: the keypoints a loaded pose landmarker reports, <<>> when it finds
\* nobody.  Box centres: (300,190) is within 100 of both ears and in front of
\* the face; (250,190) is on the right ear, 100 from the left one; (300,320) is
\* on the lower edge of the face region, 139.3 from either ear.
Frames ==
    << [decodes |-> FALSE, objects |-> <<>>, pose |-> <<>>],
       [decodes |-> TRUE,  objects |-> <<>>, pose |-> PoseWristsLevel],
       [decodes |-> TRUE,  objects |-> <<BoxAt(300, 190)>>, pose |-> <<>>],
       [decodes |-> TRUE,  objects |-> <<BoxAt(300, 190)>>, pose |-> PoseWristsLevel],
       [decodes |-> TRUE,  objects |-> <<BoxAt(250, 190)>>, pose |-> PoseWristsLevel],
       [decodes |-> TRUE,  objects |-> <<BoxAt(300, 320)>>, pose |-> PoseWristsLevel],
       [decodes |-> TRUE,  objects |-> <<BoxAt(300, 320), BoxAt(300, 190)>>,
                           pose |-> PoseWristsLevel] >>

\* Where a collaborator of the handler may raise: the upload's read, the two
\* MediaPipe detect calls, and pydantic's validation of a box or keypoint when
\* the DetectionResult is built.
Faults == {"none", "read", "detect_objects", "detect_pose", "response"}

\* MediaPipeDetector.detect_objects: the phone boxes, [] without a detector
detect_objects(image) ==
    IF object_detector = None THEN <<>> ELSE image.objects

\* MediaPipeDetector.detect_pose: None (here detected = FALSE) without a
\* landmarker or without pose_landmarks, else the keypoints of the first pose
detect_pose(image) ==
    IF pose_landmarker = None THEN [detected |-> FALSE, keypoints |-> <<>>]
    ELSE IF image.pose = <<>> THEN [detected |-> FALSE, keypoints |-> <<>>]
    ELSE [detected |-> TRUE, keypoints |-> image.pose]

NoFlags ==
    [raised |-> FALSE, phone_near_left_ear |-> FALSE, phone_near_right_ear |-> FALSE,
     phone_in_front_of_face |-> FALSE]

\* detect, the body of `for phone_box in phone_boxes`, given what the three
\* predicates return for the box (l, r, f): if / elif / elif.  A predicate is
\* called only when the ones before it returned false.
first_match(flags, l, r, f) ==
    IF l.raised THEN [flags EXCEPT !.raised = TRUE]
    ELSE IF l.value THEN [flags EXCEPT !.phone_near_left_ear = TRUE]
    ELSE IF r.raised THEN [flags EXCEPT !.raised = TRUE]
    ELSE IF r.value THEN [flags EXCEPT !.phone_near_right_ear = TRUE]
    ELSE IF f.raised THEN [flags EXCEPT !.raised = TRUE]
    ELSE IF f.value THEN [flags EXCEPT !.phone_in_front_of_face = TRUE]
    ELSE flags

\* Variant: three independent ifs, every predicate that holds sets its flag
check_phone_independent(box, kps, flags) ==
    [flags EXCEPT
       !.phone_near_left_ear = @ \/ is_phone_near_left_ear(box, kps).value,
       !.phone_near_right_ear = @ \/ is_phone_near_right_ear(box, kps).value,
       !.phone_in_front_of_face = @ \/ is_phone_in_front_of_face(box, kps).value]

check_phone(box, kps, flags) ==
    first_match(flags, is_phone_near_left_ear(box, kps),
                       is_phone_near_right_ear(box, kps),
                       is_phone_in_front_of_face(box, kps))

\* detect, the loop over phone_boxes from the i-th box on, in list order; an
\* exception ends it
RECURSIVE check_phones(_, _, _, _)
check_phones(boxes, kps, i, flags) ==
    IF i > Len(boxes) \/ flags.raised THEN flags
    ELSE check_phones(boxes, kps, i + 1, check_phone(boxes[i], kps, flags))

\* detect, the first argument of smoother.add_detection
\* Variant: the raw phone_detected is pushed
smoothing_phone_raw(phone_detected, l, r, f) == phone_detected

smoothing_phone(phone_detected, l, r, f) == phone_detected /\ (l \/ r \/ f)

\* Exceptions: the HTTPException with its status code, any other exception
HTTPException(code) == [type |-> "HTTPException", status_code |-> code]
OtherException == [type |-> "Exception", status_code |-> 0]

\* The try block ended by an exception raised at step `at`, with the window dq
Raised(exc, at, dq, frame, pushed_raw) ==
    [exc |-> <<exc>>, raised_at |-> at, dq |-> dq, frame |-> frame,
     raw |-> pushed_raw, response |-> <<>>]

\* detect, lines 519-539: read the smoothed result back and build the response;
\* after is the window add_detection left
build_response(n, fault, phone_boxes, pose_result, after) ==
    IF fault = "response" /\ (Len(phone_boxes) > 0 \/ Len(pose_result.keypoints) > 0)
    THEN \* BoundingBox(**box) or Keypoint(**kp) rejects what it is given
         Raised(OtherException, "response", after, n, <<after[Len(after)]>>)
    ELSE [exc |-> <<>>, raised_at |-> "none", dq |-> after, frame |-> n,
          raw |-> <<after[Len(after)]>>,
          response |-> <<[smoothed |-> get_smoothed_result(after),
                          phone_boxes |-> phone_boxes,
                          pose_detected |-> pose_result.detected,
                          face_detected |-> face_detected(pose_result.keypoints)]>>]

\* detect, lines 511-517: push the frame's raw flags
push_flags(n, fault, dq, t, phone_boxes, pose_result, flags) ==
    IF flags.raised THEN Raised(OtherException, "classify", dq, 0, <<>>)
    ELSE build_response(n, fault, phone_boxes, pose_result,
            add_detection(dq,
                smoothing_phone(Len(phone_boxes) > 0, flags.phone_near_left_ear,
                    flags.phone_near_right_ear, flags.phone_in_front_of_face),
                flags.phone_near_left_ear,
                flags.phone_near_right_ear,
                flags.phone_in_front_of_face,
                t))

\* detect, lines 474-509: pose_detected, keypoints and the proximity flags
classify(n, fault, dq, t, phone_boxes, pose_result) ==
    push_flags(n, fault, dq, t, phone_boxes, pose_result,
        IF Len(phone_boxes) > 0 /\ pose_result.detected
        THEN check_phones(phone_boxes, pose_result.keypoints, 1, NoFlags)
        ELSE NoFlags)

\* detect, the try block from the completed `await file.read()` on: what it
\* raised or returned, and the window it leaves.  n is the upload (an index in
\* Frames), dq the window, t the time add_detection reads.
try_block(n, fault, dq, t) ==
    IF fault = "read" THEN Raised(OtherException, "read", dq, 0, <<>>)
    ELSE IF ~Frames[n].decodes THEN Raised(HTTPException(400), "decode", dq, 0, <<>>)
    ELSE IF fault = "detect_objects" /\ object_detector # None
         THEN Raised(OtherException, "detect_objects", dq, 0, <<>>)
    ELSE IF fault = "detect_pose" /\ pose_landmarker # None
         THEN Raised(OtherException, "detect_pose", dq, 0, <<>>)
    ELSE classify(n, fault, dq, t, detect_objects(Frames[n]), detect_pose(Frames[n]))

\* The status the caller sees: 200 with a response, else the status code of the
\* HTTPException the handler raised
status_of(out) ==
    IF out.exc = <<>> THEN 200 ELSE out.exc[1].status_code

\* detect, `except Exception as e: raise HTTPException(status_code=500, ...)`:
\* HTTPException derives from Exception, so the clause takes every exception
\* of the try block, the HTTPException(400) of the decode check included
except_Exception(exc) == HTTPException(500)

\* MediaPipeDetector.__init__: each model loads, or fails to and stays None
ServerInit ==
    /\ phone_detections = <<>>
    /\ last_detection_time = 0
    /\ now = 0
    /\ pushed = <<>>
    /\ smoothed = <<>>
    /\ object_detector \in {"loaded", None}
    /\ pose_landmarker \in {"loaded", None}
    /\ pc = [r \in Requests |-> "idle"]
    /\ last = NoRequest
    /\ ClassifierIdle

\* detect, up to `await file.read()`: the request is in flight
detect_begin(r) ==
    /\ pc[r] = "idle"
    /\ pc' = [pc EXCEPT ![r] = "reading"]
    /\ UNCHANGED <<phone_detections, last_detection_time, now, pushed, smoothed,
                   object_detector, pose_landmarker, last, phone_box, keypoints, verdict>>

\* detect, the end of the request whose try block ended as out: the except
\* clause replaces whatever was raised
respond(out) ==
    /\ phone_detections' = out.dq
    /\ now' = IF out.raw = <<>> THEN now ELSE now + 1
    /\ last' = [status |-> status_of(out), raised_at |-> out.raised_at,
                frame |-> out.frame, raw |-> out.raw, response |-> out.response]

handled(out) ==
    IF out.exc = <<>> THEN out ELSE [out EXCEPT !.exc = <<except_Exception(out.exc[1])>>]

\* Variant: the handler yields between add_detection and get_smoothed_result,
\* and another request in flight pushes its frame (other) in between
respond_after_yield(out, other) ==
    /\ phone_detections' = other.dq
    /\ now' = now + 2
    /\ last' = [status |-> 200, raised_at |-> "none", frame |-> out.frame, raw |-> out.raw,
                response |-> <<[out.response[1] EXCEPT
                                   !.smoothed = get_smoothed_result(other.dq)]>>]

detect_resume_yielding(r) ==
    /\ pc[r] = "reading"
    /\ now < MaxFrames
    /\ \E n \in DOMAIN Frames, fault \in Faults :
          IF /\ now + 1 < MaxFrames
             /\ \E q \in Requests \ {r} : pc[q] = "reading"
             /\ try_block(n, fault, phone_detections, now + 1).exc = <<>>
          THEN \E m \in DOMAIN Frames :
                  /\ try_block(m, "none",
                        try_block(n, fault, phone_detections, now + 1).dq, now + 2).exc = <<>>
                  /\ respond_after_yield(
                        try_block(n, fault, phone_detections, now + 1),
                        try_block(m, "none",
                            try_block(n, fault, phone_detections, now + 1).dq, now + 2))
          ELSE respond(handled(try_block(n, fault, phone_detections, now + 1)))
    /\ pc' = [pc EXCEPT ![r] = "idle"]
    /\ UNCHANGED <<last_detection_time, pushed, smoothed, object_detector, pose_landmarker,
                   phone_box, keypoints, verdict>>

\* detect, from the resumption after `await file.read()` to the response: the
\* code awaits nothing after the read, so the rest of the handler is one step
\* of the event loop
detect_resume(r) ==
    /\ pc[r] = "reading"
    /\ now < MaxFrames
    /\ \E n \in DOMAIN Frames, fault \in Faults :
          respond(handled(try_block(n, fault, phone_detections, now + 1)))
    /\ pc' = [pc EXCEPT ![r] = "idle"]
    /\ UNCHANGED <<last_detection_time, pushed, smoothed, object_detector, pose_landmarker,
                   phone_box, keypoints, verdict>>

Next == \E r \in Requests : detect_begin(r) \/ detect_resume(r)

Spec == ServerInit /\ [][Next]_vars

(***************************************************************************)
(* Claims on DetectionSmoothing, checked under SpecSmooth.                 *)
(***************************************************************************)
Min(a, b) == IF a < b THEN a ELSE b

TrueCount(dq, ch) == Cardinality({i \in 1..Len(dq) : dq[i][ch] = TRUE})

\* C1: after n add_detection calls on a fresh smoother the window holds exactly
\* the most recent min(n, 5) pushed tuples in push order (never more than 5), and
\* get_smoothed_result returns, channel by channel, true iff at least 3 of the
\* tuples in the window are true on that channel; after 5 pushes with phone true
\* and 1 with phone false, phone_detected is still true.
C1_FifoWindowMajority ==
    LET n == Len(pushed)
        k == Min(n, 5)
    IN  /\ Len(phone_detections) = k
        /\ Len(phone_detections) <= 5
        /\ \A i \in 1..k :
              LET j == n - k + i
              IN  /\ phone_detections[i].timestamp = j
                  /\ \A ch \in Channels : phone_detections[i][ch] = pushed[j][ch]
        /\ \A c \in 1..Len(smoothed) :
              /\ smoothed[c].phone_detected = (TrueCount(phone_detections, "phone") >= 3)
              /\ smoothed[c].phone_near_left_ear = (TrueCount(phone_detections, "left_ear") >= 3)
              /\ smoothed[c].phone_near_right_ear = (TrueCount(phone_detections, "right_ear") >= 3)
              /\ smoothed[c].phone_in_front_of_face = (TrueCount(phone_detections, "front_face") >= 3)
        /\ ( /\ n = 6
             /\ \A i \in 1..5 : pushed[i].phone
             /\ ~pushed[6].phone
             /\ smoothed # <<>> ) => smoothed[1].phone_detected

\* C1 witness: five pushes with phone true, one with phone false, then a read.
C1_Witness ==
    /\ Len(pushed) = 6
    /\ \A i \in 1..5 : pushed[i].phone
    /\ ~pushed[6].phone
    /\ Len(phone_detections) = 5
    /\ smoothed # <<>>
    /\ smoothed[1].phone_detected

\* C8: a read of the empty window returns false on all four channels, and so
\* does a read of any window holding fewer than 3 tuples, whatever their values.
C8_FewerThanThreeIsAllFalse ==
    Len(phone_detections) < 3 =>
        \A c \in 1..Len(smoothed) :
            /\ ~smoothed[c].phone_detected
            /\ ~smoothed[c].phone_near_left_ear
            /\ ~smoothed[c].phone_near_right_ear
            /\ ~smoothed[c].phone_in_front_of_face

\* C8 witness: a read of a window of two tuples, both with phone true.
C8_Witness ==
    /\ Len(phone_detections) = 2
    /\ phone_detections[1].phone
    /\ phone_detections[2].phone
    /\ smoothed # <<>>
    /\ ~smoothed[1].phone_detected

\* C9: a call of get_smoothed_result leaves the window, its order and
\* last_detection_time as they were, and returns what every earlier call since
\* the last add_detection returned.
C9_ReadIsPure ==
    [][ Len(smoothed') > Len(smoothed) =>
          /\ phone_detections' = phone_detections
          /\ last_detection_time' = last_detection_time
          /\ \A c \in 1..Len(smoothed) : smoothed'[Len(smoothed')] = smoothed[c] ]_vars

\* C9 witness: two reads in a row of a full window, a flag true in both.
C9_Witness ==
    /\ Len(phone_detections) = 5
    /\ Len(smoothed) = 2
    /\ smoothed[1].phone_detected
    /\ smoothed[2].phone_detected
    /\ ~smoothed[2].phone_near_right_ear

(***************************************************************************)
(* Claims on the classifiers, checked under SpecClassify.                  *)
(***************************************************************************)
\* Twice the box centre, and the square of twice its distance to (x, y), from
\* the box's corner and size alone
Centre2(box) == <<2 * box.x_min + box.width, 2 * box.y_min + box.height>>

Dist2Sq(box, x, y) ==
    (Centre2(box)[1] - 2 * x) * (Centre2(box)[1] - 2 * x)
  + (Centre2(box)[2] - 2 * y) * (Centre2(box)[2] - 2 * y)

\* The answer the claim gives for one ear: ear, wrist and shoulder are keypoints
EarAnswer(box, ear, wrist, shoulder) ==
    IF Dist2Sq(box, ear.x, ear.y) < (2 * 100) * (2 * 100) THEN TRUE
    ELSE IF Dist2Sq(box, ear.x, ear.y) < (2 * 140) * (2 * 140)
         THEN wrist.visibility > 30 /\ wrist.y < shoulder.y
         ELSE FALSE

C5_NeverRaises ==
    /\ Len(keypoints) \in 0..33
    /\ \A f \in {"left", "right", "front"} :
          verdict[f] # <<>> => (~verdict[f][1].raised /\ verdict[f][1].value \in BOOLEAN)
    /\ Len(keypoints) < 16 =>
          /\ verdict.left # <<>> => verdict.left[1] = Return(FALSE)
          /\ verdict.right # <<>> => verdict.right[1] = Return(FALSE)
    /\ Len(keypoints) = 16 =>
          /\ verdict.right # <<>> => verdict.right[1] = Return(FALSE)
          /\ verdict.front # <<>> => verdict.front[1] = Return(FALSE)

\* C5 witness: 16 keypoints; the left-ear classifier evaluated them and said
\* true, the other two rejected them.
C5_Witness ==
    /\ Len(keypoints) = 16
    /\ verdict.left = <<Return(TRUE)>>
    /\ verdict.right = <<Return(FALSE)>>
    /\ verdict.front = <<Return(FALSE)>>

\* The face points of the claim: nose, left_eye, right_eye, left_ear, right_ear
\* (indices 0, 2, 5, 7, 8) with visibility > 0.2
FacePointsOf(kps) == {i \in {0, 2, 5, 7, 8} : kps[i + 1].visibility > 20}

FrontAnswer(box, kps) ==
    /\ Len(kps) >= 17
    /\ kps[1].visibility >= 30
    /\ \E i \in FacePointsOf(kps) : 2 * (kps[i + 1].x - 120) <= Centre2(box)[1]
    /\ \E i \in FacePointsOf(kps) : Centre2(box)[1] <= 2 * (kps[i + 1].x + 120)
    /\ \E i \in FacePointsOf(kps) : 2 * (kps[i + 1].y - 120) <= Centre2(box)[2]
    /\ \E i \in FacePointsOf(kps) : Centre2(box)[2] <= 2 * (kps[i + 1].y + 120)
    /\ Dist2Sq(box, kps[1].x, kps[1].y) < (2 * 200) * (2 * 200)
    /\ (kps[16].visibility > 30 \/ kps[17].visibility > 30)

Completes == \E r \in Requests : pc[r] = "reading" /\ pc'[r] = "idle"

\* C2: a request whose upload cannot be decoded ends with HTTP 400, returns no
\* DetectionResult and leaves the smoothing window unchanged.
C2_UndecodableIs400 ==
    [][ (Completes /\ last'.raised_at = "decode") =>
          /\ last'.status = 400
          /\ last'.response = <<>>
          /\ phone_detections' = phone_detections ]_vars

\* C3: a request that ends with HTTP 500 leaves the smoothing window as it
\* found it, whichever step of the pipeline raised.
C3_NoPushOn500 ==
    [][ (Completes /\ last'.status = 500) => phone_detections' = phone_detections ]_vars

\* The flag the claim lets one phone box set: the first of left, right, front
\* whose predicate holds
FlagOf(box, kps) ==
    IF is_phone_near_left_ear(box, kps).value THEN "left"
    ELSE IF is_phone_near_right_ear(box, kps).value THEN "right"
    ELSE IF is_phone_in_front_of_face(box, kps).value THEN "front"
    ELSE "none"

\* C6: each phone box sets at most one raw flag, left-ear before right-ear
\* before front-of-face, and each raw flag of the frame is the OR over its phone
\* boxes of the flag that box set.
C6_PriorityPerPhone ==
    last.raw # <<>> =>
        LET boxes == detect_objects(Frames[last.frame])
            pose == detect_pose(Frames[last.frame])
            checked == Len(boxes) > 0 /\ pose.detected
            Some(flag) == checked /\ \E i \in 1..Len(boxes) :
                                        FlagOf(boxes[i], pose.keypoints) = flag
        IN  /\ last.raw[1].left_ear = Some("left")
            /\ last.raw[1].right_ear = Some("right")
            /\ last.raw[1].front_face = Some("front")

\* C6 witness: two phone boxes; the second satisfies all three predicates and
\* set left-ear only, the first set front-of-face.
C6_Witness ==
    /\ last.raw # <<>>
    /\ last.frame = 7
    /\ Len(detect_objects(Frames[7])) = 2
    /\ is_phone_near_right_ear(Frames[7].objects[2], Frames[7].pose).value
    /\ is_phone_in_front_of_face(Frames[7].objects[2], Frames[7].pose).value
    /\ FlagOf(Frames[7].objects[1], Frames[7].pose) = "front"
    /\ last.raw[1].left_ear
    /\ ~last.raw[1].right_ear
    /\ last.raw[1].front_face

\* C7: the phone channel of every tuple /detect pushes is (a phone box exists)
\* and (left_ear or right_ear or front_face); every tuple in the window has
\* phone = left_ear or right_ear or front_face; a frame with no phone box or no
\* pose, a model that failed to load included, pushes the all-false tuple.
C7_PhoneChannel ==
    /\ \A i \in 1..Len(phone_detections) :
          phone_detections[i].phone = \/ phone_detections[i].left_ear
                                      \/ phone_detections[i].right_ear
                                      \/ phone_detections[i].front_face
    /\ last.raw # <<>> =>
          LET d == last.raw[1]
              has_box == Len(detect_objects(Frames[last.frame])) > 0
              has_pose == detect_pose(Frames[last.frame]).detected
          IN  /\ d.phone = (has_box /\ (d.left_ear \/ d.right_ear \/ d.front_face))
              /\ (~has_box \/ ~has_pose) =>
                    (~d.phone /\ ~d.left_ear /\ ~d.right_ear /\ ~d.front_face)

\* C7 witness: a frame with a phone box and no pose pushed the all-false tuple
\* into a window that holds a tuple with phone true.
C7_Witness ==
    /\ last.raw # <<>>
    /\ last.frame = 3
    /\ Len(detect_objects(Frames[3])) = 1
    /\ ~last.raw[1].phone
    /\ \E i \in 1..Len(phone_detections) : phone_detections[i].phone

\* C11: with several /detect requests in flight, a request's push and its
\* read-back of the smoothed result are one step: the step that completes a
\* request with a response appends exactly that request's tuple to the window
\* (the oldest dropped when full), no other request moves, and the response is
\* the majority (at least 3 votes) over the window it leaves, whose newest tuple
\* is the request's own.
C11_PushAndReadBackAtomic ==
    [][ (Completes /\ last'.status = 200) =>
          LET own == last'.raw[1]
              w == phone_detections'
              res == last'.response[1].smoothed
          IN  /\ Cardinality({r \in Requests : pc'[r] # pc[r]}) = 1
              /\ Len(w) = Min(Len(phone_detections) + 1, 5)
              /\ w[Len(w)] = own
              /\ \A i \in 1..(Len(w) - 1) :
                    w[i] = phone_detections[Len(phone_detections) - (Len(w) - 1) + i]
              /\ res.phone_detected = (TrueCount(w, "phone") >= 3)
              /\ res.phone_near_left_ear = (TrueCount(w, "left_ear") >= 3)
              /\ res.phone_near_right_ear = (TrueCount(w, "right_ear") >= 3)
              /\ res.phone_in_front_of_face = (TrueCount(w, "front_face") >= 3) ]_vars

\* C11 witness: a request completed with a response while another one is in
\* flight; its own tuple, all false, is the newest of a window of four, and the
\* three older tuples carry the response's phone_detected.
C11_Witness ==
    /\ last.status = 200
    /\ \E r \in Requests : pc[r] = "reading"
    /\ Len(phone_detections) = 4
    /\ phone_detections[4] = last.raw[1]
    /\ ~last.raw[1].phone
    /\ last.response[1].smoothed.phone_detected

====
